---- MODULE Spec2Model ----
(***************************************************************************)
(* Model of scrape_bids.py: the bid scraper's fetcher, field normalizers,  *)
(* four source extractors, standing entries and the aggregation in main.   *)
(*                                                                         *)
(* Text is kept as TLA+ strings; characters are read with SubSeq.  The     *)
(* module is ASCII, so three characters of the source are written with     *)
(* one-character stand-ins (lengths are unchanged):                        *)
(*     "^" is the en dash U+2013, "~" the em dash U+2014,                  *)
(*     "*" the middle dot U+00B7.                                          *)
(***************************************************************************)
EXTENDS Integers, Sequences, FiniteSets, TLC

(***************************************************************************)
(* Bounds of the model.                                                    *)
(***************************************************************************)
\* ticks of the clock per calendar day; tick 0 of a day is exactly midnight
TicksPerDay == 2
\* the most ticks the clock advances during one run of main
MaxElapsed == 2
\* the most structural units (rows, anchors) in one fetched page
MaxUnits == 2
\* the most records in a draft list given directly to the dedup step
MaxDrafts == 3

(***************************************************************************)
(* Python str methods.                                                     *)
(***************************************************************************)
Ch(s, i) == SubSeq(s, i, i)

Min2(a, b) == IF a < b THEN a ELSE b

UpperLetters == "ABCDEFGHIJKLMNOPQRSTUVWXYZ"

LowerLetters == "abcdefghijklmnopqrstuvwxyz"

Digits == "0123456789"

IndexIn(alphabet, c) ==
    LET hits == {i \in 1..Len(alphabet) : Ch(alphabet, i) = c}
    IN  IF hits = {} THEN 0 ELSE CHOOSE i \in hits : TRUE

\* the letters of one case, each mapped to its letter of the other
CaseMap(from, to) ==
    [c \in {Ch(from, i) : i \in 1..Len(from)} |-> Ch(to, IndexIn(from, c))]

ToLower == CaseMap(UpperLetters, LowerLetters)

ToUpper == CaseMap(LowerLetters, UpperLetters)

LowerChar(c) == IF c \in DOMAIN ToLower THEN ToLower[c] ELSE c

UpperChar(c) == IF c \in DOMAIN ToUpper THEN ToUpper[c] ELSE c

\* the characters i..j of s, each mapped by F, by halves
RECURSIVE MapChars(_, _, _, _)
MapChars(F(_), s, i, j) ==
    IF i > j THEN ""
    ELSE IF i = j THEN F(Ch(s, i))
    ELSE LET mid == (i + j) \div 2
         IN  MapChars(F, s, i, mid) \o MapChars(F, s, mid + 1, j)

\* str.lower()
Lower(s) == MapChars(LowerChar, s, 1, Len(s))

\* str.upper()
Upper(s) == MapChars(UpperChar, s, 1, Len(s))

IsSpace(c) == c = " "

\* str.strip()
Strip(s) ==
    LET idx == {i \in 1..Len(s) : ~IsSpace(Ch(s, i))}
    IN  IF idx = {} THEN ""
        ELSE SubSeq(s, CHOOSE i \in idx : \A j \in idx : i <= j,
                       CHOOSE i \in idx : \A j \in idx : i >= j)

\* sub in s
Contains(s, sub) ==
    \E i \in 1..(Len(s) - Len(sub) + 1) : SubSeq(s, i, i + Len(sub) - 1) = sub

\* s[:n]
Trunc(s, n) == SubSeq(s, 1, Min2(n, Len(s)))

\* s[n:]
From(s, n) == SubSeq(s, n, Len(s))

DigitSet == {Ch(Digits, i) : i \in 1..Len(Digits)}

IsDigit(c) == c \in DigitSet

DigitVal(c) == IndexIn(Digits, c) - 1

AllDigits(s) == \A i \in 1..Len(s) : IsDigit(Ch(s, i))

RECURSIVE NumVal(_)
NumVal(s) ==
    IF Len(s) = 0 THEN 0
    ELSE 10 * NumVal(SubSeq(s, 1, Len(s) - 1)) + DigitVal(Ch(s, Len(s)))

\* "%0<w>d" % n
RECURSIVE Pad(_, _)
Pad(n, w) ==
    IF w = 0 THEN "" ELSE Pad(n \div 10, w - 1) \o Ch(Digits, (n % 10) + 1)

(***************************************************************************)
(* Optional values: None is the empty tuple, a present value v is <<v>>.   *)
(***************************************************************************)
None == <<>>

Some(v) == <<v>>

\* Python truthiness of an optional string: None and "" are falsy
Truthy(o) == o # None /\ o[1] # ""

\* o or default
OrElse(o, default) == IF Truthy(o) THEN o[1] ELSE default

(***************************************************************************)
(* The proleptic Gregorian calendar of datetime.                           *)
(***************************************************************************)
IsLeap(y) == (y % 4 = 0) /\ ((y % 100 # 0) \/ (y % 400 = 0))

DaysInMonth(y, m) ==
    IF m = 2 THEN (IF IsLeap(y) THEN 29 ELSE 28)
    ELSE IF m \in {4, 6, 9, 11} THEN 30 ELSE 31

RECURSIVE DaysBeforeMonth(_, _)
DaysBeforeMonth(y, m) ==
    IF m = 1 THEN 0 ELSE DaysBeforeMonth(y, m - 1) + DaysInMonth(y, m - 1)

\* date.toordinal(): 1 is 0001-01-01
Ordinal(y, m, d) ==
    LET p == y - 1
    IN  p * 365 + (p \div 4) - (p \div 100) + (p \div 400)
        + DaysBeforeMonth(y, m) + d

ValidDate(y, m, d) ==
    /\ y \in 1..9999
    /\ m \in 1..12
    /\ d \in 1..DaysInMonth(y, m)

MonthNames ==
    << "January", "February", "March", "April", "May", "June", "July",
       "August", "September", "October", "November", "December" >>

(***************************************************************************)
(* datetime.strptime for the directives the program's formats use.  A      *)
(* format is matched against the whole text as the regular expression      *)
(* that _strptime builds from it: %m, %d, %I, %M take one or two digits,   *)
(* %Y four, %y two, %B and %b a month name, %p am or pm, a blank in the    *)
(* format any run of blanks, and letters match in either case.             *)
(***************************************************************************)
\* the field values strptime starts from: 1900-01-01
DefaultFields == [y |-> 1900, m |-> 1, d |-> 1]

SetField(acc, f, v) ==
    IF f = "y" THEN [acc EXCEPT !.y = v]
    ELSE IF f = "m" THEN [acc EXCEPT !.m = v]
    ELSE IF f = "d" THEN [acc EXCEPT !.d = v]
    ELSE acc

\* the ways directive %c matches s at pos: a set of <<length, field, value>>
Directive(c, s, pos) ==
    LET part(len) == SubSeq(s, pos, pos + len - 1)
        isnum(len) == pos + len - 1 <= Len(s) /\ AllDigits(part(len))
        ranged(f, lens, lo, hi) ==
            { <<l, f, NumVal(part(l))>> :
                l \in {k \in lens : isnum(k) /\ NumVal(part(k)) \in lo..hi} }
        named(names) ==
            { <<Len(names[i]), "m", i>> :
                i \in {k \in 1..Len(names) :
                         /\ pos + Len(names[k]) - 1 <= Len(s)
                         /\ Lower(part(Len(names[k]))) = Lower(names[k])} }
    IN  CASE c = "m" -> ranged("m", {1, 2}, 1, 12)
          [] c = "d" -> ranged("d", {1, 2}, 1, 31)
                        \cup { <<2, "d", DigitVal(Ch(s, pos + 1))>> :
                                 x \in {k \in {0} : /\ pos + 1 <= Len(s)
                                                    /\ IsSpace(Ch(s, pos))
                                                    /\ IsDigit(Ch(s, pos + 1))
                                                    /\ Ch(s, pos + 1) # "0"} }
          [] c = "Y" -> ranged("y", {4}, 0, 9999)
          [] c = "y" -> { <<t[1], "y", IF t[3] < 69 THEN 2000 + t[3] ELSE 1900 + t[3]>> :
                            t \in ranged("y", {2}, 0, 99) }
          [] c = "I" -> ranged("I", {1, 2}, 1, 12)
          [] c = "M" -> ranged("M", {1, 2}, 0, 59)
          [] c = "p" -> { <<2, "p", 0>> :
                            x \in {k \in {0} : /\ pos + 1 <= Len(s)
                                               /\ Lower(part(2)) \in {"am", "pm"}} }
          [] c = "B" -> named(MonthNames)
          [] c = "b" -> named([i \in 1..Len(MonthNames) |-> Trunc(MonthNames[i], 3)])
          [] OTHER -> {}

\* every assignment of fields with which fmt[fi..] matches s[si..] to its end
RECURSIVE Matches(_, _, _, _, _)
Matches(fmt, fi, s, si, acc) ==
    IF fi > Len(fmt) THEN (IF si > Len(s) THEN {acc} ELSE {})
    ELSE LET c == Ch(fmt, fi)
         IN  IF c = "%"
             THEN UNION { Matches(fmt, fi + 2, s, si + t[1], SetField(acc, t[2], t[3])) :
                            t \in Directive(Ch(fmt, fi + 1), s, si) }
             ELSE IF IsSpace(c)
             THEN UNION { Matches(fmt, fi + 1, s, si + k, acc) :
                            k \in {n \in 1..(Len(s) - si + 1) :
                                     \A j \in si..(si + n - 1) : IsSpace(Ch(s, j))} }
             ELSE IF si <= Len(s) /\ LowerChar(Ch(s, si)) = LowerChar(c)
             THEN Matches(fmt, fi + 1, s, si + 1, acc)
             ELSE {}

\* datetime.strptime(text, fmt) as a date: None stands for ValueError
strptime(text, fmt) ==
    LET found == {a \in Matches(fmt, 1, text, 1, DefaultFields) :
                    ValidDate(a.y, a.m, a.d)}
    IN  IF found = {} THEN None ELSE Some(CHOOSE a \in found : TRUE)

\* date.strftime("%Y-%m-%d")
strftime(date) ==
    Pad(date.y, 4) \o "-" \o Pad(date.m, 2) \o "-" \o Pad(date.d, 2)

IsoFormat == "%Y-%m-%d"

DateFormats ==
    << "%m/%d/%Y", "%m-%d-%Y", "%B %d, %Y", "%b %d, %Y",
       "%Y-%m-%d", "%m/%d/%y", "%m/%d/%Y %I:%M%p", "%m/%d/%Y %I:%M %p" >>

RECURSIVE TryFormats(_, _)
TryFormats(text, i) ==
    IF i > Len(DateFormats) THEN None
    ELSE LET r == strptime(text, DateFormats[i])
         IN  IF r # None THEN Some(strftime(r[1])) ELSE TryFormats(text, i + 1)

\* parse_date(text): the ISO string of the first format that parses, or None
parse_date(text) == TryFormats(Strip(text), 1)

(***************************************************************************)
(* The clock.  A datetime is a date and a tick of that day; a date read    *)
(* by strptime is that date at tick 0 (midnight).                          *)
(***************************************************************************)
Instant(dt) == Ordinal(dt.y, dt.m, dt.d) * TicksPerDay + dt.tick

Midnight(date) == [y |-> date.y, m |-> date.m, d |-> date.d, tick |-> 0]

\* the datetime one tick after dt
Tick(dt) ==
    IF dt.tick + 1 < TicksPerDay THEN [dt EXCEPT !.tick = dt.tick + 1]
    ELSE IF dt.d < DaysInMonth(dt.y, dt.m) THEN [dt EXCEPT !.d = dt.d + 1, !.tick = 0]
    ELSE IF dt.m < 12 THEN [dt EXCEPT !.m = dt.m + 1, !.d = 1, !.tick = 0]
    ELSE [dt EXCEPT !.y = dt.y + 1, !.m = 1, !.d = 1, !.tick = 0]

RECURSIVE After(_, _)
After(dt, n) == IF n = 0 THEN dt ELSE After(Tick(dt), n - 1)

\* (a - b).days: timedelta normalises to a floor of whole days
DaysBetween(a, b) == (Instant(a) - Instant(b)) \div TicksPerDay

\* is_future, had it compared with >= instead of >
is_future_or_now(date_str, clock) ==
    IF ~Truthy(date_str) THEN TRUE
    ELSE LET dl == strptime(date_str[1], IsoFormat)
         IN  IF dl = None THEN TRUE
             ELSE Instant(Midnight(dl[1])) >= Instant(clock)

\* is_future(date_str), the clock reading clock
is_future(date_str, clock) ==
    IF ~Truthy(date_str) THEN TRUE
    ELSE LET dl == strptime(date_str[1], IsoFormat)
         IN  IF dl = None THEN TRUE
             ELSE Instant(Midnight(dl[1])) > Instant(clock)

(***************************************************************************)
(* Fetched content.  A network response either fails (an exception of      *)
(* requests.get or of raise_for_status) or succeeds; either way it may     *)
(* carry a body.  A parsed body is a document: its tables in document      *)
(* order, each a sequence of rows, each row a sequence of cells            *)
(* [tag, text], and its anchors with an href, each [href, text].  The text *)
(* of a cell or anchor is its one raw text node.                           *)
(***************************************************************************)
EmptyDoc == [tables |-> <<>>, links |-> <<>>]

\* safe_get, had its except clause not caught the error of the request
safe_get_uncaught(response) ==
    IF response.fails
    THEN [text |-> EmptyDoc, ok |-> FALSE, warned |-> FALSE, raised |-> TRUE]
    ELSE [text |-> response.body, ok |-> TRUE, warned |-> FALSE, raised |-> FALSE]

\* safe_get(url): (text, ok), whether the WARN line was printed, and whether
\* an exception left safe_get: its except clause catches every Exception of
\* the request, so none does
safe_get(response) ==
    IF response.fails
    THEN [text |-> EmptyDoc, ok |-> FALSE, warned |-> TRUE, raised |-> FALSE]
    ELSE [text |-> response.body, ok |-> TRUE, warned |-> FALSE, raised |-> FALSE]

RECURSIVE JoinStripped(_, _, _)
JoinStripped(cells, i, sep) ==
    IF i > Len(cells) THEN <<>>
    ELSE LET t == Strip(cells[i].text)
         IN  (IF t = "" THEN <<>> ELSE <<t>>) \o JoinStripped(cells, i + 1, sep)

RECURSIVE Join(_, _)
Join(parts, sep) ==
    IF Len(parts) = 0 THEN ""
    ELSE IF Len(parts) = 1 THEN parts[1]
    ELSE parts[1] \o sep \o Join(Tail(parts), sep)

\* tag.get_text(sep, strip=True): the non-blank stripped strings, joined
get_text(cells, sep) == Join(JoinStripped(cells, 1, sep), sep)

\* row.find_all(tags)
find_all(row, tags) == SelectSeq(row, LAMBDA c : c.tag \in tags)

RECURSIVE ConcatMap(_, _, _)
ConcatMap(F(_), xs, i) ==
    IF i > Len(xs) THEN <<>> ELSE F(xs[i]) \o ConcatMap(F, xs, i + 1)

\* re.match(r'(P\d+)\s*[^-]\s*(.*)', text): None or <<group 1, group 2>>
ProjectMatch(text) ==
    LET digitsEnd == CHOOSE e \in 1..Len(text) :
                        /\ \A j \in 2..e : IsDigit(Ch(text, j))
                        /\ (e = Len(text) \/ ~IsDigit(Ch(text, e + 1)))
        blanksEnd(from) == CHOOSE e \in (from - 1)..Len(text) :
                        /\ \A j \in from..e : IsSpace(Ch(text, j))
                        /\ (e = Len(text) \/ ~IsSpace(Ch(text, e + 1)))
    IN  IF Len(text) < 2 \/ Ch(text, 1) # "P" \/ ~IsDigit(Ch(text, 2)) THEN None
        ELSE LET dash == blanksEnd(digitsEnd + 1) + 1
             IN  IF dash > Len(text) \/ Ch(text, dash) \notin {"^", "-"} THEN None
                 ELSE Some(<< SubSeq(text, 1, digitsEnd),
                              From(text, blanksEnd(dash + 1) + 1) >>)

Today(clock) == strftime(clock)

(***************************************************************************)
(* scrape_umich                                                            *)
(***************************************************************************)
UmichUrl == "https://umaec.umich.edu/for-vendors/bids-proposals/"

umich_record(title, project_num, deadline, clock) ==
    [ title |-> title,
      sub |-> (IF project_num # "" THEN project_num \o " * " ELSE "")
              \o "University of Michigan construction project",
      location |-> "Ann Arbor", state |-> "MI", status |-> "open",
      deadline |-> OrElse(deadline, "TBD"),
      value |-> "See Bid Docs", valueSortable |-> 0,
      posted |-> Today(clock), source |-> "U-M AEC", url |-> UmichUrl,
      drawings |-> "reg",
      drawingsNote |-> "BuildingConnected ~ vendor registration required" ]

\* the list scrape_umich builds and never reads
elec_keywords ==
    << "electrical", "switchgear", "power", "lighting", "tunnel", "boiler",
       "chiller", "hvac", "cath lab", "energy", "generator", "transformer",
       "panel", "wiring", "conduit", "bms", "controls" >>

\* umich_row, had it kept only the rows with a word of elec_keywords
umich_row_electrical_only(row, clock) ==
    LET cells == find_all(row, {"td", "th"})
        text == Strip(cells[1].text)
        match == ProjectMatch(text)
        title == IF match = None THEN text ELSE Strip(match[1][2])
        deadline == parse_date(Strip(cells[Len(cells)].text))
    IN  IF Len(cells) < 2 THEN <<>>
        ELSE IF text = "" \/ (Contains(text, "Project") /\ Contains(text, "Name")) THEN <<>>
        ELSE IF Contains(Lower(get_text(row, "")), "awarded") THEN <<>>
        ELSE IF ~is_future(deadline, clock) THEN <<>>
        ELSE IF ~(\E k \in 1..Len(elec_keywords) : Contains(Lower(title), elec_keywords[k]))
             THEN <<>>
        ELSE << umich_record(title, IF match = None THEN "" ELSE match[1][1],
                             deadline, clock) >>

\* the body of the row loop: the records one row appends (none or one)
umich_row(row, clock) ==
    LET cells == find_all(row, {"td", "th"})
        text == Strip(cells[1].text)
        full_text == Lower(get_text(row, ""))
        match == ProjectMatch(text)
        title == IF match = None THEN text ELSE Strip(match[1][2])
        project_num == IF match = None THEN "" ELSE match[1][1]
        deadline == parse_date(Strip(cells[Len(cells)].text))
    IN  IF Len(cells) < 2 THEN <<>>
        ELSE IF text = "" \/ (Contains(text, "Project") /\ Contains(text, "Name")) THEN <<>>
        ELSE IF Contains(full_text, "awarded") THEN <<>>
        ELSE IF ~is_future(deadline, clock) THEN <<>>
        ELSE << umich_record(title, project_num, deadline, clock) >>

AllRows(doc) == ConcatMap(LAMBDA t : t, doc.tables, 1)

scrape_umich(response, clock) ==
    LET got == safe_get(response)
    IN  IF ~got.ok THEN <<>>
        ELSE ConcatMap(LAMBDA row : umich_row(row, clock), AllRows(got.text), 1)

(***************************************************************************)
(* scrape_mdot_lettings                                                    *)
(***************************************************************************)
MdotUrl == "https://mdotjboss.state.mi.us/BidLetting/BidLettingHome.htm"

MdotLink == "https://www.michigan.gov/mdot/business/contractors/bid-letting"

MdotKeywords == <<"signal", "electric", "lighting", "illumin", "its ", "traffic">>

MdotTitleLen == 100

mdot_standing(sub, clock) ==
    [ title |-> "MDOT 2026 Signalization & Electrical ~ Statewide Lettings",
      sub |-> sub,
      location |-> "Statewide", state |-> "MI", status |-> "open",
      deadline |-> "Varies", value |-> "$1M^$5M", valueSortable |-> 5000000,
      posted |-> Today(clock), source |-> "MDOT Bid Letting", url |-> MdotLink,
      drawings |-> "yes",
      drawingsNote |-> "Full plans & specs on Bid Express ~ free download" ]

\* the record returned when the fetch failed
mdot_fallback_fetch(clock) ==
    mdot_standing("Multiple traffic signalization, highway lighting, and ITS electrical projects across Michigan", clock)

\* the record appended when the page gave no record
mdot_fallback_empty(clock) ==
    mdot_standing("Multiple traffic signalization, highway lighting, and ITS projects ~ check Bid Express for current listings", clock)

AnyKeyword(text, kws) == \E i \in 1..Len(kws) : Contains(text, kws[i])

\* the first cell date that parses and is future, else None
RECURSIVE FirstFutureDate(_, _, _)
FirstFutureDate(cells, i, clock) ==
    IF i > Len(cells) THEN None
    ELSE LET d == parse_date(Strip(cells[i].text))
         IN  IF Truthy(d) /\ is_future(d, clock) THEN d
             ELSE FirstFutureDate(cells, i + 1, clock)

mdot_record(title_cell, deadline, clock) ==
    [ title |-> Trunc(title_cell, MdotTitleLen),
      sub |-> "MDOT highway electrical / signalization project",
      location |-> "Michigan", state |-> "MI", status |-> "open",
      deadline |-> OrElse(deadline, "Varies"),
      value |-> "See Bid Docs", valueSortable |-> 0,
      posted |-> Today(clock), source |-> "MDOT Bid Letting", url |-> MdotLink,
      drawings |-> "yes",
      drawingsNote |-> "Full plans & specs on Bid Express ~ free download" ]

mdot_row(row, clock) ==
    LET cells == find_all(row, {"td"})
        text == Lower(get_text(row, " "))
    IN  IF Len(cells) < 2 THEN <<>>
        ELSE IF AnyKeyword(text, MdotKeywords)
             THEN << mdot_record(Strip(cells[1].text),
                                 FirstFutureDate(cells, 1, clock), clock) >>
             ELSE <<>>

\* scrape_mdot_lettings without its "if not bids" fallback
scrape_mdot_lettings_no_fallback(response, clock) ==
    LET got == safe_get(response)
    IN  IF ~got.ok THEN << mdot_fallback_fetch(clock) >>
        ELSE ConcatMap(LAMBDA row : mdot_row(row, clock), AllRows(got.text), 1)

\* scrape_mdot_lettings without its "if not ok" return
scrape_mdot_lettings_ignores_ok(response, clock) ==
    LET bids == ConcatMap(LAMBDA row : mdot_row(row, clock),
                          AllRows(safe_get(response).text), 1)
    IN  IF bids = <<>> THEN << mdot_fallback_empty(clock) >> ELSE bids

scrape_mdot_lettings(response, clock) ==
    LET got == safe_get(response)
        bids == ConcatMap(LAMBDA row : mdot_row(row, clock), AllRows(got.text), 1)
    IN  IF ~got.ok THEN << mdot_fallback_fetch(clock) >>
        ELSE IF bids = <<>> THEN << mdot_fallback_empty(clock) >>
        ELSE bids

(***************************************************************************)
(* scrape_ofcc_ohio                                                        *)
(***************************************************************************)
OfccUrl == "https://ofcc.ohio.gov/project-opportunities/bids-rfqs"

OfccUrl2 == "https://ofcc.ohio.gov/project-opportunities/public-notices"

OfccTitleLen == 120

OfccMinTitle == 5

ofcc_record(title, sub, url, note, clock) ==
    [ title |-> title, sub |-> sub,
      location |-> "Ohio", state |-> "OH", status |-> "open",
      deadline |-> "See Document", value |-> "See Bid Docs", valueSortable |-> 0,
      posted |-> Today(clock), source |-> "OFCC / Bid Express", url |-> url,
      drawings |-> "yes", drawingsNote |-> note ]

ofcc_link(link, clock) ==
    LET text == Strip(link.text)
    IN  IF Contains(Upper(link.href), "SOL-") \/ Contains(Upper(text), "BID")
        THEN << ofcc_record(IF Trunc(text, OfccTitleLen) # "" THEN Trunc(text, OfccTitleLen)
                            ELSE "OFCC Construction Bid",
                            "Ohio Facilities Construction Commission solicitation",
                            OfccUrl, "Available on ofcc.ohio.gov and Bid Express", clock) >>
        ELSE <<>>

ofcc_notice_row(row, clock) ==
    LET cells == find_all(row, {"td"})
        title == Strip(cells[1].text)
    IN  IF Len(cells) >= 2 /\ title # "" /\ Len(title) > OfccMinTitle
        THEN << ofcc_record(Trunc(title, OfccTitleLen),
                            "OFCC public notice ~ may include electrical scope",
                            OfccUrl2, "Bid Express ~ free download after registration",
                            clock) >>
        ELSE <<>>

\* for row in rows[1:], for every table
ofcc_notice_table(table, clock) ==
    ConcatMap(LAMBDA row : ofcc_notice_row(row, clock), table, 2)

\* scrape_ofcc_ohio, had a failed fetch of the notices page lost the records
\* of the first page
scrape_ofcc_ohio_first_page_lost(response, response2, clock) ==
    LET got == safe_get(response)
        got2 == safe_get(response2)
        bids == ConcatMap(LAMBDA link : ofcc_link(link, clock), got.text.links, 1)
    IN  IF ~got.ok THEN <<>>
        ELSE IF got2.ok
             THEN bids \o ConcatMap(LAMBDA t : ofcc_notice_table(t, clock),
                                    got2.text.tables, 1)
             ELSE <<>>

scrape_ofcc_ohio(response, response2, clock) ==
    LET got == safe_get(response)
        got2 == safe_get(response2)
        bids == ConcatMap(LAMBDA link : ofcc_link(link, clock), got.text.links, 1)
    IN  IF ~got.ok THEN <<>>
        ELSE IF got2.ok
             THEN bids \o ConcatMap(LAMBDA t : ofcc_notice_table(t, clock),
                                    got2.text.tables, 1)
             ELSE bids

(***************************************************************************)
(* scrape_odot                                                             *)
(***************************************************************************)
OdotUrl == "https://www.dot.state.oh.us/Divisions/ContractAdmin/Contracts/Pages/default.aspx"

OdotKeywords == <<"letting", "schedule", "advertisement">>

OdotTitleLen == 80

odot_standing(sub, clock) ==
    [ title |-> "ODOT 2026 Statewide Highway Electrical Lettings",
      sub |-> sub,
      location |-> "Statewide", state |-> "OH", status |-> "open",
      deadline |-> "Varies", value |-> "$1M^$5M", valueSortable |-> 5000000,
      posted |-> Today(clock), source |-> "ODOT Bid Letting", url |-> OdotUrl,
      drawings |-> "yes",
      drawingsNote |-> "Full plans via ODOT eProposal and Bid Express" ]

odot_fallback_fetch(clock) ==
    odot_standing("Multiple lighting, signalization, and ITS electrical projects across Ohio DOT districts", clock)

odot_fallback_empty(clock) ==
    odot_standing("Multiple lighting, signalization, and ITS electrical projects ~ check Bid Express for current listings", clock)

odot_link(link, clock) ==
    IF AnyKeyword(Lower(Strip(link.text)), OdotKeywords)
    THEN << [ title |-> "ODOT Letting ~ " \o Trunc(Strip(link.text), OdotTitleLen),
              sub |-> "Ohio DOT construction letting ~ check for electrical/signalization scope",
              location |-> "Statewide", state |-> "OH", status |-> "open",
              deadline |-> "See Schedule", value |-> "See Bid Docs", valueSortable |-> 0,
              posted |-> Today(clock), source |-> "ODOT Bid Letting", url |-> OdotUrl,
              drawings |-> "yes", drawingsNote |-> "ODOT eProposal and Bid Express" ] >>
    ELSE <<>>

scrape_odot(response, clock) ==
    LET got == safe_get(response)
        bids == ConcatMap(LAMBDA link : odot_link(link, clock), got.text.links, 1)
    IN  IF ~got.ok THEN << odot_fallback_fetch(clock) >>
        ELSE IF bids = <<>> THEN << odot_fallback_empty(clock) >>
        ELSE bids

(***************************************************************************)
(* get_standing_entries                                                    *)
(***************************************************************************)
standing(title, sub, location, state, value, sortable, source, url, drawings, note, clock) ==
    [ title |-> title, sub |-> sub, location |-> location, state |-> state,
      status |-> "open", deadline |-> "Varies", value |-> value,
      valueSortable |-> sortable, posted |-> Today(clock), source |-> source,
      url |-> url, drawings |-> drawings, drawingsNote |-> note ]

get_standing_entries(clock) ==
    << standing("Michigan DTMB ~ State Facility Electrical Projects",
                "DTMB Design & Construction capital improvement projects ~ browse SIGMA VSS for current listings",
                "Lansing / Various", "MI", "$500K^$2M", 2000000, "DTMB SIGMA VSS",
                "https://www.michigan.gov/dtmb/procurement/design-and-construction",
                "reg", "SIGMA VSS ~ vendor registration required", clock),
       standing("MSU Capital Projects ~ Electrical & Building Systems",
                "Michigan State University IPF construction bids ~ check Plan Room for current listings",
                "East Lansing", "MI", "$200K^$2M+", 2000000, "MSU IPF Plan Room",
                "https://ipf.msu.edu/plan-room",
                "reg", "MSU Plan Room ~ Bid Manager registration required", clock),
       standing("MITN Local Government Electrical ~ Multiple MI Municipalities",
                "Aggregated electrical bids from ~200 Michigan local governments incl. schools & utilities",
                "Various", "MI", "$50K^$1M+", 1000000, "BidNet / MITN",
                "https://www.bidnetdirect.com/mitn",
                "reg", "Varies by agency ~ most require BidNet login", clock),
       standing("Ohio State University ~ Campus Electrical & Infrastructure",
                "OSU Facilities Operations capital projects ~ browse Bid Express for current listings",
                "Columbus", "OH", "$1M^$5M", 5000000, "OSU / Bid Express",
                "https://fod.osu.edu/resources",
                "reg", "Bid Express ~ free vendor registration required", clock),
       standing("Franklin County ~ Public Works Electrical Projects",
                "County construction bids incl. electrical, lighting, and building systems ~ Columbus metro",
                "Columbus", "OH", "$200K^$2M", 2000000, "Franklin County",
                "https://bids.franklincountyohio.gov/",
                "tbd", "Obtain at county office (373 S. High St) or per ad", clock),
       standing("Ohio Purchasing Group ~ Statewide Local Electrical Bids",
                "Aggregated state and local government electrical RFPs and bids across Ohio municipalities",
                "Various", "OH", "$50K^$1M+", 1000000, "BidNet / Ohio",
                "https://www.bidnetdirect.com/ohio",
                "reg", "Varies by agency ~ most require BidNet registration", clock) >>

(***************************************************************************)
(* main: the steps after the extractors.                                   *)
(***************************************************************************)
Sentinels == {"Varies", "TBD", "See Document", "See Schedule"}

ClosingDays == 14

\* the body of the "mark closing-soon" loop for one bid
reclassify(bid, clock) ==
    IF bid.deadline \in Sentinels THEN bid
    ELSE LET dl == strptime(bid.deadline, IsoFormat)
         IN  IF dl = None THEN bid
             ELSE IF DaysBetween(Midnight(dl[1]), clock) <= ClosingDays
                  THEN [bid EXCEPT !.status = "closing"]
                  ELSE bid

mark_closing(bids, clock) == [i \in 1..Len(bids) |-> reclassify(bids[i], clock)]

\* title_key, had it kept the letter case
title_key_case_sensitive(bid) == Strip(bid.title)

\* the dedup key of a bid
title_key(bid) == Strip(Lower(bid.title))

\* the dedup loop, had it forgotten a key on meeting its duplicate
RECURSIVE DedupFrom_forgetful(_, _, _)
DedupFrom_forgetful(bids, i, seen) ==
    IF i > Len(bids) THEN <<>>
    ELSE LET key == title_key(bids[i])
         IN  IF key \notin seen
             THEN <<bids[i]>> \o DedupFrom_forgetful(bids, i + 1, seen \cup {key})
             ELSE DedupFrom_forgetful(bids, i + 1, seen \ {key})

RECURSIVE DedupFrom(_, _, _)
DedupFrom(bids, i, seen) ==
    IF i > Len(bids) THEN <<>>
    ELSE LET key == title_key(bids[i])
         IN  IF key \notin seen
             THEN <<bids[i]>> \o DedupFrom(bids, i + 1, seen \cup {key})
             ELSE DedupFrom(bids, i + 1, seen)

\* the "deduplicate by title" loop
dedup(bids) == DedupFrom(bids, 1, {})

SourcesChecked ==
    << "U-M AEC (umaec.umich.edu)",
       "MDOT Bid Letting (michigan.gov/mdot)",
       "DTMB SIGMA VSS (michigan.gov/dtmb)",
       "MSU IPF Plan Room (ipf.msu.edu)",
       "BidNet / MITN (bidnetdirect.com/mitn)",
       "OFCC Bids & RFQs (ofcc.ohio.gov)",
       "OFCC Public Notices (ofcc.ohio.gov)",
       "ODOT Contract Admin (dot.state.oh.us)",
       "OSU Bid Express (fod.osu.edu)",
       "Franklin County (bids.franklincountyohio.gov)",
       "BidNet / Ohio (bidnetdirect.com/ohio)" >>

build_output(bids, clock) ==
    [last_updated |-> clock, sources_checked |-> SourcesChecked, bids |-> bids]

(***************************************************************************)
(* Inputs: what the four sites may answer.                                 *)
(***************************************************************************)
\* the length of an over-long primary text
LongLen == 130

RECURSIVE Repeat(_, _)
Repeat(c, n) ==
    IF n = 0 THEN ""
    ELSE IF n = 1 THEN c
    ELSE Repeat(c, n \div 2) \o Repeat(c, n - (n \div 2))

LongText == Repeat("x", LongLen)

td(text) == [tag |-> "td", text |-> text]

th(text) == [tag |-> "th", text |-> text]

a(href, text) == [href |-> href, text |-> text]

TableDoc(rows) == [tables |-> <<rows>>, links |-> <<>>]

LinkDoc(links) == [tables |-> <<>>, links |-> links]

Ok(body) == [fails |-> FALSE, body |-> body]

Fail(body) == [fails |-> TRUE, body |-> body]

\* the run starts on 2026-11-02, at midnight or later that day
StartClocks == {[y |-> 2026, m |-> 11, d |-> 2, tick |-> t] : t \in 0..(TicksPerDay - 1)}

\* U-M rows
UmichCoded == << td("P123 ^ Electrical Upgrade"), td("12/31/2099") >>

UmichNoName == << td("P7 -"), td("11/03/2026") >>

UmichLong == << td(LongText), td("TBD") >>

UmichPast == << td("Old Roof"), td("01/01/2000") >>

UmichToday == << td("Today Job"), td(" 11/02/2026 ") >>

UmichHeader == << th("Project Name"), th("Bid Date") >>

UmichAwarded == << td("Lab Reno"), td("Awarded") >>

UmichBlank == << td(" "), td("12/31/2099") >>

UmichLone == << td("Lone cell") >>

UmichRows ==
    { UmichCoded, UmichNoName, UmichLong, UmichPast, UmichToday, UmichHeader,
      UmichAwarded, UmichBlank, UmichLone }

\* MDOT rows
MdotSignal == << td("electrical upgrade"), td("11/17/2026") >>

MdotBridge == << td("Bridge Deck Repair"), td("12/31/2099") >>

MdotPast == << td("Highway Lighting"), td("01/01/2000") >>

MdotBlankAwarded == << td(""), td("Signal work AWARDED") >>

MdotHeader == << th("Letting"), th("Date") >>

MdotRows == { MdotSignal, MdotBridge, MdotPast, MdotBlankAwarded, MdotHeader }

\* OFCC anchors and public-notice rows
OfccSol == a("/docs/sol-123.pdf", "")

OfccAbout == a("/about", "About OFCC")

OfccAwarded == a("/n/7", "Bid Awarded: Dorm Wiring")

OfccLinks == { OfccSol, OfccAbout, OfccAwarded }

OfccHeader == << th("Notice"), th("Date") >>

OfccShort == << td("Short"), td("x") >>

OfccNotice == << td("Public Notice 7"), td("x") >>

OfccRows == { OfccShort, OfccNotice }

\* ODOT anchors
OdotSchedule == a("/l", "Letting Schedule")

OdotContact == a("/c", "Contact Us")

OdotAwarded == a("/w", "Awarded Lettings 2025")

OdotLinks == { OdotSchedule, OdotContact, OdotAwarded }

SeqsUpTo(S, n) == UNION {[1..k -> S] : k \in 0..n}

\* every answer with one table of header and up to MaxUnits rows, or no table
TableResponses(rows, header) ==
    [fails : BOOLEAN,
     body : {EmptyDoc} \cup {TableDoc(header \o r) : r \in SeqsUpTo(rows, MaxUnits)}]

\* every answer with up to MaxUnits anchors
LinkResponses(links) ==
    [fails : BOOLEAN, body : {LinkDoc(l) : l \in SeqsUpTo(links, MaxUnits)}]

\* the answers one run of main draws from
UmichPages ==
    { Fail(TableDoc(<<UmichCoded>>)),
      Ok(EmptyDoc),
      Ok(TableDoc(<<UmichHeader, UmichCoded, UmichPast>>)),
      Ok(TableDoc(<<UmichNoName, UmichLong>>)) }

MdotPages ==
    { Fail(TableDoc(<<MdotSignal>>)),
      Ok(TableDoc(<<MdotHeader, MdotBridge>>)),
      Ok(TableDoc(<<MdotSignal, MdotBridge>>)),
      Ok(TableDoc(<<MdotPast, MdotBlankAwarded>>)) }

OfccPages ==
    { Fail(LinkDoc(<<OfccSol>>)),
      Ok(LinkDoc(<<OfccAbout>>)),
      Ok(LinkDoc(<<OfccSol, OfccAwarded>>)) }

OfccPages2 ==
    { Fail(TableDoc(<<OfccHeader, OfccNotice>>)),
      Ok(TableDoc(<<OfccHeader, OfccShort, OfccNotice>>)) }

OdotPages ==
    { Fail(LinkDoc(<<OdotSchedule>>)),
      Ok(LinkDoc(<<OdotContact>>)),
      Ok(LinkDoc(<<OdotSchedule, OdotAwarded>>)) }

(***************************************************************************)
(* The state of one run of main.                                           *)
(***************************************************************************)
VARIABLES
    pc,          \* the step main is about to take
    now,         \* the clock
    elapsed,     \* ticks since the run started
    all_bids,    \* main's accumulated draft list
    unique_bids, \* the deduplicated list
    output,      \* the feed written to bids.json, None before
    log,         \* the urls of the WARN lines printed, in order
    gets,        \* the urls requested, in order
    last         \* the step just taken: its inputs, the clock it read, its result

vars == <<pc, now, elapsed, all_bids, unique_bids, output, log, gets, last>>

NoStep == [step |-> "none"]

Start(at) ==
    /\ pc = at
    /\ now \in StartClocks
    /\ elapsed = 0
    /\ all_bids = <<>>
    /\ unique_bids = <<>>
    /\ output = None
    /\ log = <<>>
    /\ gets = <<>>
    /\ last = NoStep

Init == Start("umich")

\* time passes while a step runs: none, or one tick
Pass ==
    \E k \in 0..1 :
        /\ elapsed + k <= MaxElapsed
        /\ elapsed' = elapsed + k
        /\ now' = After(now, k)

Warned(url, response) == IF safe_get(response).warned THEN <<url>> ELSE <<>>

\* where main goes after a call that requested r: on, or out with the
\* exception that left safe_get
After_get(r, next) == IF safe_get(r).raised THEN "crashed" ELSE next

\* all_bids.extend(scrape_umich())
UmichStep(pages, next) ==
    /\ pc = "umich"
    /\ \E r \in pages : \E ret \in {scrape_umich(r, now)} :
          /\ all_bids' = all_bids \o ret
          /\ log' = log \o Warned(UmichUrl, r)
          /\ last' = [step |-> "umich", response |-> r, clock |-> now, ret |-> ret]
          /\ pc' = After_get(r, next)
    /\ gets' = gets \o <<UmichUrl>>
    /\ Pass
    /\ UNCHANGED <<unique_bids, output>>

\* all_bids.extend(scrape_mdot_lettings())
MdotStep(pages, next) ==
    /\ pc = "mdot"
    /\ \E r \in pages : \E ret \in {scrape_mdot_lettings(r, now)} :
          /\ all_bids' = all_bids \o ret
          /\ log' = log \o Warned(MdotUrl, r)
          /\ last' = [step |-> "mdot", response |-> r, clock |-> now, ret |-> ret]
          /\ pc' = After_get(r, next)
    /\ gets' = gets \o <<MdotUrl>>
    /\ Pass
    /\ UNCHANGED <<unique_bids, output>>

\* all_bids.extend(scrape_ofcc_ohio()): the second page is requested only
\* when the first was fetched
OfccStep(pages, pages2, next) ==
    /\ pc = "ofcc"
    /\ \E r \in pages :
          \/ /\ r.fails
             /\ \E ret \in {scrape_ofcc_ohio(r, r, now)} :
                   /\ all_bids' = all_bids \o ret
                   /\ last' = [step |-> "ofcc", response |-> r, response2 |-> None,
                               clock |-> now, ret |-> ret]
             /\ log' = log \o Warned(OfccUrl, r)
             /\ gets' = gets \o <<OfccUrl>>
             /\ pc' = After_get(r, next)
          \/ /\ ~r.fails
             /\ \E r2 \in pages2 : \E ret \in {scrape_ofcc_ohio(r, r2, now)} :
                   /\ all_bids' = all_bids \o ret
                   /\ log' = log \o Warned(OfccUrl, r) \o Warned(OfccUrl2, r2)
                   /\ last' = [step |-> "ofcc", response |-> r, response2 |-> Some(r2),
                               clock |-> now, ret |-> ret]
                   /\ pc' = After_get(r2, next)
             /\ gets' = gets \o <<OfccUrl, OfccUrl2>>
    /\ Pass
    /\ UNCHANGED <<unique_bids, output>>

\* all_bids.extend(scrape_odot())
OdotStep(pages, next) ==
    /\ pc = "odot"
    /\ \E r \in pages : \E ret \in {scrape_odot(r, now)} :
          /\ all_bids' = all_bids \o ret
          /\ log' = log \o Warned(OdotUrl, r)
          /\ last' = [step |-> "odot", response |-> r, clock |-> now, ret |-> ret]
          /\ pc' = After_get(r, next)
    /\ gets' = gets \o <<OdotUrl>>
    /\ Pass
    /\ UNCHANGED <<unique_bids, output>>

Umich == UmichStep(UmichPages, "mdot")

Mdot == MdotStep(MdotPages, "ofcc")

Ofcc == OfccStep(OfccPages, OfccPages2, "odot")

Odot == OdotStep(OdotPages, "standing")

\* all_bids.extend(get_standing_entries())
Standing ==
    /\ pc = "standing"
    /\ all_bids' = all_bids \o get_standing_entries(now)
    /\ last' = [step |-> "standing", clock |-> now]
    /\ pc' = "reclassify"
    /\ Pass
    /\ UNCHANGED <<unique_bids, output, log, gets>>

\* the "mark closing-soon items" loop
Reclassify ==
    /\ pc = "reclassify"
    /\ all_bids' = mark_closing(all_bids, now)
    /\ last' = [step |-> "reclassify", clock |-> now]
    /\ pc' = "dedup"
    /\ Pass
    /\ UNCHANGED <<unique_bids, output, log, gets>>

\* the "deduplicate by title" loop
DedupStep(next) ==
    /\ pc = "dedup"
    /\ unique_bids' = dedup(all_bids)
    /\ last' = [step |-> "dedup", clock |-> now]
    /\ pc' = next
    /\ Pass
    /\ UNCHANGED <<all_bids, output, log, gets>>

Dedup == DedupStep("publish")

\* build the output and write bids.json
Publish ==
    /\ pc = "publish"
    /\ output' = Some(build_output(unique_bids, now))
    /\ last' = [step |-> "publish", clock |-> now]
    /\ pc' = "done"
    /\ Pass
    /\ UNCHANGED <<all_bids, unique_bids, log, gets>>

Next ==
    \/ Umich
    \/ Mdot
    \/ Ofcc
    \/ Odot
    \/ Standing
    \/ Reclassify
    \/ Dedup
    \/ Publish

\* one run of main
Spec == Init /\ [][Next]_vars

(***************************************************************************)
(* Each extractor called on its own, on every answer within MaxUnits.      *)
(***************************************************************************)
ExtractInit == \E at \in {"umich", "mdot", "ofcc", "odot"} : Start(at)

UmichAlone == UmichStep(TableResponses(UmichRows, <<>>), "returned")

MdotAlone == MdotStep(TableResponses(MdotRows, <<>>), "returned")

OfccAlone ==
    OfccStep(LinkResponses(OfccLinks), TableResponses(OfccRows, <<OfccHeader>>), "returned")

OdotAlone == OdotStep(LinkResponses(OdotLinks), "returned")

ExtractNext ==
    \/ UmichAlone
    \/ MdotAlone
    \/ OfccAlone
    \/ OdotAlone

ExtractSpec == ExtractInit /\ [][ExtractNext]_vars

(***************************************************************************)
(* The dedup step on its own, on every draft list within MaxDrafts.        *)
(***************************************************************************)
DraftTitles == {"Electrical Upgrade", "electrical upgrade ", " ELECTRICAL UPGRADE", "Roof"}

DraftSources == {"U-M AEC", "MDOT Bid Letting"}

Draft(title, source) ==
    [ title |-> title, sub |-> "", location |-> "", state |-> "MI",
      status |-> "open", deadline |-> "TBD", value |-> "See Bid Docs",
      valueSortable |-> 0, posted |-> "2026-11-02", source |-> source,
      url |-> "", drawings |-> "tbd", drawingsNote |-> "" ]

Drafts == {Draft(t, src) : t \in DraftTitles, src \in DraftSources}

DedupInit ==
    /\ pc = "dedup"
    /\ now \in StartClocks
    /\ elapsed = 0
    /\ all_bids \in SeqsUpTo(Drafts, MaxDrafts)
    /\ unique_bids = <<>>
    /\ output = None
    /\ log = <<>>
    /\ gets = <<>>
    /\ last = NoStep

DedupAlone == DedupStep("returned")

\* the "deduplicate by title" loop run once more, on the list it has just
\* produced; last.first keeps the list the first run was given
DedupAgain ==
    /\ pc = "returned"
    /\ last.step = "dedup"
    /\ all_bids' = unique_bids
    /\ unique_bids' = dedup(unique_bids)
    /\ last' = [step |-> "dedup_again", clock |-> now, first |-> all_bids]
    /\ pc' = "returned_again"
    /\ Pass
    /\ UNCHANGED <<output, log, gets>>

DedupNext ==
    \/ DedupAlone
    \/ DedupAgain

DedupSpec == DedupInit /\ [][DedupNext]_vars

(***************************************************************************)
(* is_future on its own.                                                   *)
(***************************************************************************)
DateStrings ==
    {None, Some(""), Some("junk"), Some("11/03/2026"), Some("2026-13-01"),
     Some("2026-02-30"), Some("2026-11-2")}
    \cup {Some(strftime([y |-> y, m |-> m, d |-> d])) :
            y \in {2025, 2026, 2027}, m \in {10, 11, 12}, d \in {1, 2, 3}}

IsFutureCall ==
    /\ pc = "is_future"
    /\ \E date_str \in DateStrings :
          last' = [step |-> "is_future", date_str |-> date_str, clock |-> now,
                   ret |-> is_future(date_str, now)]
    /\ pc' = "returned"
    /\ Pass
    /\ UNCHANGED <<all_bids, unique_bids, output, log, gets>>

IsFutureInit == Start("is_future")

IsFutureNext == IsFutureCall

IsFutureSpec == IsFutureInit /\ [][IsFutureNext]_vars

(***************************************************************************)
(* Properties.  After an extractor step, last holds the answer it got,     *)
(* the clock it read and the list it returned.                             *)
(***************************************************************************)
Count(xs, P(_)) == Cardinality({i \in 1..Len(xs) : P(xs[i])})

Extracted == last.step \in {"umich", "mdot", "ofcc", "odot"}

Fetched == ~last.response.fails

PageRows == AllRows(last.response.body)

PageLinks == last.response.body.links

\* the rows of the public-notices page below each table's first row
NoticeRows ==
    IF last.response2 = None \/ last.response2[1].fails THEN <<>>
    ELSE ConcatMap(LAMBDA t : Tail(t), last.response2[1].body.tables, 1)

\* the text of a row's first cell of the given tags, "" when it has none
PrimaryText(row, tags) ==
    IF find_all(row, tags) = <<>> THEN "" ELSE Strip(find_all(row, tags)[1].text)

IsHeaderLabel(text) == Contains(text, "Project") /\ Contains(text, "Name")

IsAwarded(cells) == Contains(Lower(get_text(cells, " ")), "awarded")

\* the last cell holds a date that is not future
UmichDeadlinePast(row) ==
    LET d == parse_date(row[Len(row)].text)
    IN  d # None /\ ~is_future(d, last.clock)

\* a U-M row that passes the empty, header, awarded and past-deadline rules
UmichPasses(row) ==
    /\ Len(row) >= 2
    /\ PrimaryText(row, {"td", "th"}) # ""
    /\ ~IsHeaderLabel(PrimaryText(row, {"td", "th"}))
    /\ ~IsAwarded(row)
    /\ ~UmichDeadlinePast(row)

\* an MDOT row with two data cells and one of the six words
MdotSelected(row) ==
    /\ Len(find_all(row, {"td"})) >= 2
    /\ AnyKeyword(Lower(get_text(row, " ")), MdotKeywords)

OfccLinkSelected(link) ==
    Contains(Upper(link.href), "SOL-") \/ Contains(Upper(Strip(link.text)), "BID")

OfccRowSelected(row) ==
    /\ Len(find_all(row, {"td"})) >= 2
    /\ Len(PrimaryText(row, {"td"})) > OfccMinTitle

OdotSelected(link) == AnyKeyword(Lower(link.text), OdotKeywords)

\* extraction yields no candidate unit: the fetch failed, or nothing matches
NoCandidates ==
    CASE last.step = "umich" -> ~Fetched \/ Count(PageRows, UmichPasses) = 0
      [] last.step = "mdot" -> ~Fetched \/ Count(PageRows, MdotSelected) = 0
      [] last.step = "ofcc" -> ~Fetched \/ ( /\ Count(PageLinks, OfccLinkSelected) = 0
                                              /\ Count(NoticeRows, OfccRowSelected) = 0 )
      [] last.step = "odot" -> ~Fetched \/ Count(PageLinks, OdotSelected) = 0

\* C1 as claimed: each of the four extractors returns exactly one record, its
\* fallback, whenever extraction yields no candidate unit.
C1_FallbackEverywhere ==
    (Extracted /\ NoCandidates) => Len(last.ret) = 1

\* C1 as amended: with no candidate unit, scrape_mdot_lettings and scrape_odot
\* return exactly one record, the fallback of the failed fetch or the fallback
\* of the empty page, and scrape_umich and scrape_ofcc_ohio return no record.
C1_FallbackWhereDefined ==
    (Extracted /\ NoCandidates) =>
        CASE last.step = "mdot" ->
                 last.ret = << IF Fetched THEN mdot_fallback_empty(last.clock)
                               ELSE mdot_fallback_fetch(last.clock) >>
          [] last.step = "odot" ->
                 last.ret = << IF Fetched THEN odot_fallback_empty(last.clock)
                               ELSE odot_fallback_fetch(last.clock) >>
          [] OTHER -> last.ret = <<>>

\* C1 witness: MDOT answered with rows, none was selected, and the one record
\* returned is the fallback.
C1_Witness ==
    /\ last.step = "mdot"
    /\ Fetched
    /\ Len(PageRows) >= 2
    /\ NoCandidates
    /\ last.ret = << mdot_fallback_empty(last.clock) >>

\* the records of a returned list that were built from a unit of the page
UnitRecords ==
    SelectSeq(last.ret,
              LAMBDA r : r \notin { mdot_fallback_fetch(last.clock), mdot_fallback_empty(last.clock),
                                    odot_fallback_fetch(last.clock), odot_fallback_empty(last.clock) })

\* some cell of the row holds a date, and no cell holds a future one
MdotDeadlinePast(row) ==
    LET cells == find_all(row, {"td"})
        dates == {parse_date(cells[i].text) : i \in 1..Len(cells)} \ {None}
    IN  dates # {} /\ \A d \in dates : ~is_future(d, last.clock)

\* an MDOT row that passes the empty, header, awarded and past-deadline rules
MdotPasses(row) ==
    /\ Len(find_all(row, {"td"})) >= 2
    /\ PrimaryText(row, {"td"}) # ""
    /\ ~IsHeaderLabel(PrimaryText(row, {"td"}))
    /\ ~IsAwarded(row)
    /\ ~MdotDeadlinePast(row)

\* C4 as claimed: no extractor excludes a unit by a project-domain word list;
\* every unit that passes the empty, header, awarded and past-deadline rules
\* has its record in the output.
C4_NoKeywordExclusion ==
    (Extracted /\ Fetched) =>
        CASE last.step = "umich" -> Len(UnitRecords) >= Count(PageRows, UmichPasses)
          [] last.step = "mdot" -> Len(UnitRecords) >= Count(PageRows, MdotPasses)
          [] last.step = "ofcc" -> Len(UnitRecords) >= Count(PageLinks, OfccLinkSelected)
                                                       + Count(NoticeRows, OfccRowSelected)
          [] last.step = "odot" -> Len(UnitRecords) >= Count(PageLinks, OdotSelected)

\* C4 as amended: scrape_umich returns a record for every row that passes the
\* empty, header, awarded and past-deadline rules, whatever words it holds
\* (elec_keywords is never read); scrape_ofcc_ohio and scrape_odot return one
\* for every anchor or notice row their markers select; scrape_mdot_lettings
\* returns one for a row of two data cells exactly when the row's text holds
\* one of signal, electric, lighting, illumin, "its ", traffic.
C4_OnlyMdotFilters ==
    (Extracted /\ Fetched) =>
        CASE last.step = "umich" -> Len(UnitRecords) = Count(PageRows, UmichPasses)
          [] last.step = "mdot" -> Len(UnitRecords) = Count(PageRows, MdotSelected)
          [] last.step = "ofcc" -> Len(UnitRecords) = Count(PageLinks, OfccLinkSelected)
                                                      + Count(NoticeRows, OfccRowSelected)
          [] last.step = "odot" -> Len(UnitRecords) = Count(PageLinks, OdotSelected)

\* C4 witness: scrape_umich returned a record whose title holds no word of
\* elec_keywords.
C4_Witness ==
    /\ last.step = "umich"
    /\ Fetched
    /\ \E i \in 1..Len(last.ret) :
          /\ last.ret[i].title # ""
          /\ ~AnyKeyword(Lower(last.ret[i].title), elec_keywords)

\* C5 as claimed: in scrape_umich and scrape_mdot_lettings a unit whose
\* deadline parses to a date that is not future gives no record, and a unit
\* whose deadline does not parse is kept with a sentinel deadline.
C5_PastDeadlineDiscarded ==
    (Extracted /\ Fetched) =>
        CASE last.step = "umich" ->
                 /\ Len(last.ret) = Count(PageRows, UmichPasses)
                 /\ \A i \in 1..Len(last.ret) :
                       last.ret[i].deadline = "TBD" \/ is_future(Some(last.ret[i].deadline), last.clock)
          [] last.step = "mdot" ->
                 \A i \in 1..Len(PageRows) :
                    (MdotSelected(PageRows[i]) /\ MdotDeadlinePast(PageRows[i])) =>
                        ~\E k \in 1..Len(UnitRecords) :
                            UnitRecords[k].title = Trunc(PrimaryText(PageRows[i], {"td"}), MdotTitleLen)
          [] OTHER -> TRUE

\* C6: when the fetch of MDOT or ODOT fails, safe_get returns the empty text
\* and false, one WARN line is printed, and the extractor returns exactly the
\* fallback record of a failed fetch.
C6_FetchFailureFallback ==
    (last.step \in {"mdot", "odot"} /\ ~Fetched) =>
        /\ safe_get(last.response).text = EmptyDoc
        /\ ~safe_get(last.response).ok
        /\ ~safe_get(last.response).raised
        /\ pc # "crashed"
        /\ log = << IF last.step = "mdot" THEN MdotUrl ELSE OdotUrl >>
        /\ last.ret = << IF last.step = "mdot" THEN mdot_fallback_fetch(last.clock)
                         ELSE odot_fallback_fetch(last.clock) >>

\* C6 witness: the failed MDOT answer carried a row the extractor would have
\* selected, and the fallback alone was returned.
C6_Witness ==
    /\ last.step = "mdot"
    /\ ~Fetched
    /\ Count(PageRows, MdotSelected) > 0
    /\ log = <<MdotUrl>>
    /\ last.ret = << mdot_fallback_fetch(last.clock) >>

\* a unit the reject rule names: empty primary text, a header label, or
\* "awarded" in its text in any letter case
Rejected(primary, text) ==
    primary = "" \/ IsHeaderLabel(primary) \/ Contains(Lower(text), "awarded")

\* C9 as claimed: no record of any extractor comes from a unit whose primary
\* text is empty or a header label, or whose text contains "awarded": the
\* records are no more than the selected units the rule does not reject.
C9_RejectRule ==
    (Extracted /\ Fetched) =>
        CASE last.step = "umich" ->
                 Len(UnitRecords) <= Count(PageRows,
                     LAMBDA row : /\ Len(row) >= 2
                                  /\ ~Rejected(PrimaryText(row, {"td", "th"}), get_text(row, " ")))
          [] last.step = "mdot" ->
                 Len(UnitRecords) <= Count(PageRows,
                     LAMBDA row : /\ MdotSelected(row)
                                  /\ ~Rejected(PrimaryText(row, {"td"}), get_text(row, " ")))
          [] last.step = "ofcc" ->
                 Len(UnitRecords) <=
                     Count(PageLinks,
                           LAMBDA link : /\ OfccLinkSelected(link)
                                         /\ ~Rejected(Strip(link.text), link.text))
                     + Count(NoticeRows,
                           LAMBDA row : /\ OfccRowSelected(row)
                                        /\ ~Rejected(PrimaryText(row, {"td"}), get_text(row, " ")))
          [] last.step = "odot" ->
                 Len(UnitRecords) <= Count(PageLinks,
                     LAMBDA link : /\ OdotSelected(link)
                                   /\ ~Rejected(Strip(link.text), link.text))

\* C10: is_future is true of None, of "" and of a string that does not parse
\* as YYYY-MM-DD; of a date that parses it is true exactly when the date at
\* midnight is strictly later than the clock, so it is false of the clock's
\* own day at every tick of that day.
C10_IsFuture ==
    last.step = "is_future" =>
        LET d == last.date_str
            parsed == IF Truthy(d) THEN strptime(d[1], IsoFormat) ELSE None
        IN  /\ (~Truthy(d) \/ parsed = None) => last.ret
            /\ (Truthy(d) /\ parsed # None) =>
                   (last.ret <=> Instant(Midnight(parsed[1])) > Instant(last.clock))
            /\ d = Some(Today(last.clock)) => ~last.ret

\* C10 witness: is_future was called with the clock's own day at exactly
\* midnight and returned false.
C10_Witness ==
    /\ last.step = "is_future"
    /\ last.clock.tick = 0
    /\ last.date_str = Some(Today(last.clock))
    /\ ~last.ret

\* a title lowercased and trimmed
NormTitle(bid) == Strip(Lower(bid.title))

\* C3: the dedup step returns an order-preserving subsequence of its input
\* in which no two records share a lowercased, trimmed title, and the record
\* kept for each such title is the first of the input, whatever its source.
C3_DedupFirstWins ==
    last.step = "dedup" =>
        LET firsts == {i \in 1..Len(all_bids) :
                         \A j \in 1..(i - 1) : NormTitle(all_bids[j]) # NormTitle(all_bids[i])}
        IN  /\ \E f \in [1..Len(unique_bids) -> 1..Len(all_bids)] :
                  /\ \A i, k \in 1..Len(unique_bids) : i < k => f[i] < f[k]
                  /\ \A i \in 1..Len(unique_bids) : unique_bids[i] = all_bids[f[i]]
            /\ \A i, k \in 1..Len(unique_bids) :
                  i # k => NormTitle(unique_bids[i]) # NormTitle(unique_bids[k])
            /\ Len(unique_bids) = Cardinality(firsts)
            /\ \A i \in firsts : \E k \in 1..Len(unique_bids) : unique_bids[k] = all_bids[i]

\* C3 witness: two records of different sources whose titles differ only in
\* case and blanks went in, and only the first came out.
C3_Witness ==
    /\ last.step = "dedup"
    /\ Len(all_bids) = 2
    /\ all_bids[1].title = "Electrical Upgrade"
    /\ all_bids[2].title = "electrical upgrade "
    /\ all_bids[1].source # all_bids[2].source
    /\ unique_bids = <<all_bids[1]>>

\* C11: the dedup step run on a list that is already its own output returns
\* that list: the same records in the same order, none removed.
C11_DedupIdempotent ==
    last.step = "dedup_again" => unique_bids = all_bids

\* C11 witness: the first run removed a duplicate from three records, and the
\* second run, given the two that were left, returned both.
C11_Witness ==
    /\ last.step = "dedup_again"
    /\ Len(last.first) = 3
    /\ Len(all_bids) = 2
    /\ unique_bids = all_bids

\* C12: scrape_ofcc_ohio requests the public-notices page only after the
\* bids-rfqs page was fetched: when the first fetch fails it returns no record
\* and issues no second GET; when the first succeeds it issues the second, and
\* when that one fails it returns the records of the first page's anchors.
C12_SecondFetchAfterFirst ==
    last.step = "ofcc" =>
        /\ ~Fetched =>
               /\ last.ret = <<>>
               /\ last.response2 = None
               /\ gets = <<OfccUrl>>
               /\ log = <<OfccUrl>>
        /\ Fetched =>
               /\ last.response2 # None
               /\ gets = <<OfccUrl, OfccUrl2>>
               /\ last.response2[1].fails =>
                      /\ log = <<OfccUrl2>>
                      /\ Len(last.ret) = Count(PageLinks, OfccLinkSelected)
                      /\ \A i \in 1..Len(last.ret) : last.ret[i].url = OfccUrl

\* C12 witness: the first page was fetched and held a solicitation anchor, the
\* fetch of the notices page failed, and the anchor's record was returned.
C12_Witness ==
    /\ last.step = "ofcc"
    /\ Fetched
    /\ last.response2 # None
    /\ last.response2[1].fails
    /\ gets = <<OfccUrl, OfccUrl2>>
    /\ Len(last.ret) >= 1
    /\ last.ret[1].url = OfccUrl

\* C2 as claimed: after the reclassification step a record is closing exactly
\* when its deadline is an ISO date with 0 <= (deadline - now).days <= 14, and
\* a record with a sentinel deadline is open.
C2_ClosingIffWithin14 ==
    last.step = "reclassify" =>
        \A i \in 1..Len(all_bids) :
            LET bid == all_bids[i]
                dl == IF bid.deadline \in Sentinels THEN None
                      ELSE strptime(bid.deadline, IsoFormat)
                days == DaysBetween(Midnight(dl[1]), last.clock)
            IN  /\ bid.status = "closing" <=> (dl # None /\ 0 <= days /\ days <= 14)
                /\ bid.deadline \in Sentinels => bid.status = "open"

\* C7 as claimed: every record of the published feed has a title that is not
\* empty and has at most 120 characters.
C7_TitleBounded ==
    output # None =>
        \A i \in 1..Len(output[1].bids) :
            /\ output[1].bids[i].title # ""
            /\ Len(output[1].bids[i].title) <= 120

AllFetchesFailed == log = <<UmichUrl, MdotUrl, OfccUrl, OdotUrl>>

Unposted(bids) == [i \in 1..Len(bids) |-> [bids[i] EXCEPT !.posted = ""]]

\* the steps of main, in program order
Steps ==
    << "umich", "mdot", "ofcc", "odot", "standing", "reclassify", "dedup",
       "publish", "done" >>

StepIndex(step) == CHOOSE i \in 1..Len(Steps) : Steps[i] = step

\* C8: whatever fetches fail, no step of main ends the run with an exception,
\* every step is followed by the next one in program order, the extractors
\* are called in order, and the run ends with a feed written; when every
\* fetch failed the feed is the MDOT and ODOT fallback records and the six
\* standing entries.
C8_AlwaysAFeed ==
    /\ \E i \in 1..Len(Steps) : pc = Steps[i]
    /\ last.step # "none" => StepIndex(pc) = StepIndex(last.step) + 1
    /\ pc = "done" =>
          /\ output # None
          /\ gets \in { <<UmichUrl, MdotUrl, OfccUrl, OdotUrl>>,
                        <<UmichUrl, MdotUrl, OfccUrl, OfccUrl2, OdotUrl>> }
          /\ AllFetchesFailed =>
                Unposted(output[1].bids) =
                    Unposted(<< mdot_fallback_fetch(now), odot_fallback_fetch(now) >>
                             \o get_standing_entries(now))

\* C8 witness: a run in which every fetch failed has published its feed.
C8_Witness ==
    /\ pc = "done"
    /\ AllFetchesFailed
    /\ output # None
    /\ Len(output[1].bids) = 8

====
